---- MODULE Spec2Model ----
(***************************************************************************)
(* Model of the translation-practice tool: the token aligner and edit      *)
(* classifier (token_opcodes, highlight_html), the metric adapters         *)
(* (compute_scores, calculate_metrics), the scoring policy                 *)
(* (compute_points) and the Streamlit application state of app.py          *)
(* (exercises, submissions, per-exercise timers).                          *)
(*                                                                         *)
(* Representation.  A text is a sequence of one-character strings.  An     *)
(* optional value is a sequence of length at most one: None is <<>> and    *)
(* Some(v) is <<v>>.  Scores rounded to 4 decimals are integers in units   *)
(* of 1/10000 (suffix E4); times rounded to 2 decimals are integers in     *)
(* units of 1/100 second (suffix E2).                                      *)
(***************************************************************************)
EXTENDS Integers, Sequences, FiniteSets, TLC

VARIABLES
    call,            \* the function call under test: arguments, then the result
    libs,            \* module-level imports: which optional packages loaded
    exercises,       \* table exercises, row id = position (ids are never reused)
    submissions,     \* table submissions, a set of rows
    next_sub_id,     \* AUTOINCREMENT sequence of table submissions
    session,         \* st.session_state text entries (text areas and prev_ copies)
    keystrokes_map,  \* st.session_state.keystrokes_map
    start_time_map,  \* st.session_state.start_time_map
    now,             \* time.time(), in 1/100 second
    shown            \* the words of exercise and feedback text on the student's page

appVars == <<exercises, submissions, next_sub_id, session, keystrokes_map, start_time_map,
             now, shown>>

vars == <<call, libs, appVars>>

-----------------------------------------------------------------------------
(* Bounds *)

MaxTokens == 3

-----------------------------------------------------------------------------
(* Generic helpers *)

None == <<>>
Some(v) == <<v>>

OrEmpty(t) == IF t = None THEN <<>> ELSE t[1]

Truthy(t) == t # None /\ t[1] # <<>>

Max(x, y) == IF x >= y THEN x ELSE y

Min(x, y) == IF x <= y THEN x ELSE y

Whitespace == {" "}

(* Variant: not s, without strip *)
EmptyStr(s) == s = <<>>

(* not s.strip() *)
BlankStr(s) == \A n \in 1..Len(s) : s[n] \in Whitespace

(* dict helpers *)
Put(d, k, v) == [x \in (DOMAIN d) \cup {k} |-> IF x = k THEN v ELSE d[x]]

Pop(d, k) == [x \in (DOMAIN d) \ {k} |-> d[x]]

GetOr(d, k, default) == IF k \in DOMAIN d THEN d[k] ELSE default

-----------------------------------------------------------------------------
(* Tokenizer: str.split() with no argument *)

RECURSIVE SplitAcc(_, _, _)
SplitAcc(s, cur, acc) ==
    IF s = <<>>
    THEN IF cur = <<>> THEN acc ELSE Append(acc, cur)
    ELSE IF Head(s) \in Whitespace
         THEN SplitAcc(Tail(s), <<>>, IF cur = <<>> THEN acc ELSE Append(acc, cur))
         ELSE SplitAcc(Tail(s), Append(cur, Head(s)), acc)

Split(s) == SplitAcc(s, <<>>, <<>>)

(* " ".join(tokens) *)
RECURSIVE Join(_)
Join(toks) ==
    IF toks = <<>> THEN <<>>
    ELSE IF Len(toks) = 1 THEN toks[1]
    ELSE toks[1] \o <<" ">> \o Join(Tail(toks))

(* seq[lo:hi] with 0-based half-open bounds *)
Slice(s, lo, hi) == SubSeq(s, lo + 1, hi)

-----------------------------------------------------------------------------
(* difflib.SequenceMatcher(None, a, b) as used by app.py.  No junk         *)
(* function is given, and the automatic "popular element" heuristic only   *)
(* applies to sequences of 200 or more elements.                           *)

RECURSIVE MatchLen(_, _, _, _, _, _)
MatchLen(a, b, i, j, ahi, bhi) ==
    IF i < ahi /\ j < bhi /\ a[i + 1] = b[j + 1]
    THEN 1 + MatchLen(a, b, i + 1, j + 1, ahi, bhi)
    ELSE 0

(* All start pairs of the longest common blocks inside a[alo:ahi], b[blo:bhi] *)
LongestSize(a, b, alo, ahi, blo, bhi) ==
    LET sizes == {MatchLen(a, b, i, j, ahi, bhi) : i \in alo..(ahi - 1), j \in blo..(bhi - 1)}
    IN  IF sizes = {} THEN 0 ELSE CHOOSE k \in sizes : \A m \in sizes : m <= k

LongestStarts(a, b, alo, ahi, blo, bhi) ==
    LET k == LongestSize(a, b, alo, ahi, blo, bhi)
    IN  {p \in (alo..(ahi - 1)) \X (blo..(bhi - 1)) : MatchLen(a, b, p[1], p[2], ahi, bhi) = k}

(* find_longest_match: the longest block, earliest in a, then earliest in b *)
EarliestStart(starts) ==
    CHOOSE p \in starts : \A q \in starts : p[1] < q[1] \/ (p[1] = q[1] /\ p[2] <= q[2])

find_longest_match(a, b, alo, ahi, blo, bhi) ==
    LET starts == LongestStarts(a, b, alo, ahi, blo, bhi)
    IN  IF starts = {} \/ LongestSize(a, b, alo, ahi, blo, bhi) = 0
        THEN <<alo, blo, 0>>
        ELSE EarliestStart(starts) \o <<LongestSize(a, b, alo, ahi, blo, bhi)>>

(* The blocks left of the block (i, j, k), the block, the blocks right of it *)
RECURSIVE MatchRec(_, _, _, _, _, _)
RECURSIVE MatchAround(_, _, _, _, _, _, _, _, _)
MatchAround(a, b, alo, ahi, blo, bhi, i, j, k) ==
    IF k = 0 THEN <<>>
    ELSE (IF alo < i /\ blo < j THEN MatchRec(a, b, alo, i, blo, j) ELSE <<>>)
         \o << <<i, j, k>> >>
         \o (IF i + k < ahi /\ j + k < bhi THEN MatchRec(a, b, i + k, ahi, j + k, bhi) ELSE <<>>)

MatchBlock(a, b, alo, ahi, blo, bhi, m) ==
    MatchAround(a, b, alo, ahi, blo, bhi, m[1], m[2], m[3])

MatchRec(a, b, alo, ahi, blo, bhi) ==
    MatchBlock(a, b, alo, ahi, blo, bhi, find_longest_match(a, b, alo, ahi, blo, bhi))

(* Collapse adjacent equal blocks, then append the (la, lb, 0) sentinel *)
RECURSIVE Collapse(_, _, _)
Collapse(blocks, cur, acc) ==
    IF blocks = <<>>
    THEN IF cur[3] # 0 THEN Append(acc, cur) ELSE acc
    ELSE LET nxt == Head(blocks)
         IN  IF cur[1] + cur[3] = nxt[1] /\ cur[2] + cur[3] = nxt[2]
             THEN Collapse(Tail(blocks), <<cur[1], cur[2], cur[3] + nxt[3]>>, acc)
             ELSE Collapse(Tail(blocks), nxt, IF cur[3] # 0 THEN Append(acc, cur) ELSE acc)

(* Variant: the closing (la, lb, 0) block is not appended *)
BlocksWithoutSentinel(blocks, la, lb) ==
    Collapse(blocks, <<0, 0, 0>>, <<>>)

BlocksWithSentinel(blocks, la, lb) ==
    Append(Collapse(blocks, <<0, 0, 0>>, <<>>), <<la, lb, 0>>)

get_matching_blocks(a, b) ==
    BlocksWithSentinel(MatchRec(a, b, 0, Len(a), 0, Len(b)), Len(a), Len(b))

Span(tag, i1, i2, j1, j2) == [tag |-> tag, i1 |-> i1, i2 |-> i2, j1 |-> j1, j2 |-> j2]

RECURSIVE OpcodesFrom(_, _, _, _)
OpcodesFrom(blocks, i, j, acc) ==
    IF blocks = <<>> THEN acc
    ELSE LET ai == Head(blocks)[1]
             bj == Head(blocks)[2]
             size == Head(blocks)[3]
             tag == IF i < ai /\ j < bj THEN "replace"
                    ELSE IF i < ai THEN "delete"
                    ELSE IF j < bj THEN "insert"
                    ELSE ""
             acc1 == IF tag # "" THEN Append(acc, Span(tag, i, ai, j, bj)) ELSE acc
             acc2 == IF size # 0
                     THEN Append(acc1, Span("equal", ai, ai + size, bj, bj + size))
                     ELSE acc1
         IN  OpcodesFrom(Tail(blocks), ai + size, bj + size, acc2)

get_opcodes(a, b) == OpcodesFrom(get_matching_blocks(a, b), 0, 0, <<>>)

(* SequenceMatcher.ratio() rounded to 4 decimals, in units of 1/10000 *)
RECURSIVE SumSizes(_)
SumSizes(blocks) == IF blocks = <<>> THEN 0 ELSE Head(blocks)[3] + SumSizes(Tail(blocks))

RatioE4(a, b) ==
    LET t == Len(a) + Len(b)
        m == SumSizes(get_matching_blocks(a, b))
    IN  IF t = 0 THEN 10000 ELSE (2 * 2 * m * 10000 + t) \div (2 * t)

-----------------------------------------------------------------------------
(* app.py: token_opcodes *)

RefTokens(ref) == Split(OrEmpty(ref))

HypTokens(hyp) == Split(OrEmpty(hyp))

AlignerSpans(ref, hyp) == get_opcodes(RefTokens(ref), HypTokens(hyp))

(* Variant: a replace span costs the shorter of its two slices *)
SpanCostShorterSide(op) ==
    IF op.tag = "insert" THEN op.j2 - op.j1
    ELSE IF op.tag = "delete" THEN op.i2 - op.i1
    ELSE IF op.tag = "replace" THEN Min(op.i2 - op.i1, op.j2 - op.j1)
    ELSE 0

SpanCost(op) ==
    IF op.tag = "insert" THEN op.j2 - op.j1
    ELSE IF op.tag = "delete" THEN op.i2 - op.i1
    ELSE IF op.tag = "replace" THEN Max(op.i2 - op.i1, op.j2 - op.j1)
    ELSE 0

RECURSIVE CountTag(_, _)
CountTag(ops, tag) ==
    IF ops = <<>> THEN 0
    ELSE (IF Head(ops).tag = tag THEN SpanCost(Head(ops)) ELSE 0) + CountTag(Tail(ops), tag)

RECURSIVE ExamplesOf(_, _, _, _)
ExamplesOf(ops, tag, rt, ht) ==
    IF ops = <<>> THEN <<>>
    ELSE LET op == Head(ops)
             rest == ExamplesOf(Tail(ops), tag, rt, ht)
         IN  IF op.tag # tag THEN rest
             ELSE IF tag = "insert" THEN <<Join(Slice(ht, op.j1, op.j2))>> \o rest
             ELSE IF tag = "delete" THEN <<Join(Slice(rt, op.i1, op.i2))>> \o rest
             ELSE << <<Join(Slice(rt, op.i1, op.i2)), Join(Slice(ht, op.j1, op.j2))>> >> \o rest

(* Variant: the deletes are left out of the sum *)
EditOpsWithoutDeletes(inserts, deletes, replaces) == inserts + replaces

(* Variant: the inserts are left out of the sum *)
EditOpsWithoutInserts(inserts, deletes, replaces) == deletes + replaces

EditOpsTotal(inserts, deletes, replaces) == inserts + deletes + replaces

token_opcodes(ref, hyp) ==
    LET rt == RefTokens(ref)
        ht == HypTokens(hyp)
        ops == get_opcodes(rt, ht)
        inserts == CountTag(ops, "insert")
        deletes == CountTag(ops, "delete")
        replaces == CountTag(ops, "replace")
    IN  [inserts |-> inserts, deletes |-> deletes, replaces |-> replaces,
         edit_ops |-> EditOpsTotal(inserts, deletes, replaces),
         examples |-> [insert |-> ExamplesOf(ops, "insert", rt, ht),
                       delete |-> ExamplesOf(ops, "delete", rt, ht),
                       replace |-> ExamplesOf(ops, "replace", rt, ht)]]

-----------------------------------------------------------------------------
(* app.py: compute_points.  Metrics are in units of 1/10000, time_spent in *)
(* units of 1/100 second; int() truncates toward zero.                     *)

MetricNames == {"BLEU", "chrF", "TER", "BERT_F1", "similarity"}

(* dict.get(key): None when the key is absent *)
Get(scores, key) == IF key \in DOMAIN scores THEN scores[key] ELSE None

(* x or 0 *)
OrZero(opt) == IF opt = None THEN 0 ELSE opt[1]

(* Variant: round(n / d) instead of int(n / d) *)
IntRound(n, d) == IF n >= 0 THEN (2 * n + d) \div (2 * d) ELSE -((2 * (-n) + d) \div (2 * d))

(* int(n / d) for d > 0 *)
IntTrunc(n, d) == IF n >= 0 THEN n \div d ELSE -((-n) \div d)

(* Variant: the final "if pts < 0: pts = 0" is missing *)
NoClamp(pts) == pts

ClampAtZero(pts) == IF pts < 0 THEN 0 ELSE pts

compute_points(scores, time_spent, edit_ops) ==
    LET bleu == OrZero(Get(scores, "BLEU"))
        bert == OrZero(Get(scores, "BERT_F1"))
        sim == OrZero(Get(scores, "similarity"))
        pts == 10
               + IntTrunc(bleu * 2, 100000)
               + IntTrunc(bert * 4, 100000)
               + IntTrunc(sim * 5, 10000)
               - IntTrunc(time_spent, 1000)
               - IntTrunc(edit_ops, 2)
    IN  ClampAtZero(pts)

-----------------------------------------------------------------------------
(* app.py: highlight_html.  A part is kept as the text between the tags    *)
(* and the reference text quoted in its title attribute; the result is the *)
(* parts written out and joined with single spaces.  The HTML text is a    *)
(* sequence whose elements are the characters of the tokens and the fixed  *)
(* pieces of markup, each piece one element.                               *)

Part(tag, text, annot) == [tag |-> tag, text |-> text, annot |-> annot]

(* Variant: a replace part shows the reference segment, titled with the   *)
(* student's                                                               *)
HighlightPartSwapped(op, rt, ht) ==
    LET stu == Join(Slice(ht, op.j1, op.j2))
        refseg == Join(Slice(rt, op.i1, op.i2))
    IN  IF op.tag = "equal" THEN Part("equal", stu, <<>>)
        ELSE IF op.tag = "replace" THEN Part("replace", refseg, stu)
        ELSE IF op.tag = "insert" THEN Part("insert", stu, <<>>)
        ELSE Part("delete", refseg, refseg)

HighlightPart(op, rt, ht) ==
    LET stu == Join(Slice(ht, op.j1, op.j2))
        refseg == Join(Slice(rt, op.i1, op.i2))
    IN  IF op.tag = "equal" THEN Part("equal", stu, <<>>)
        ELSE IF op.tag = "replace" THEN Part("replace", stu, refseg)
        ELSE IF op.tag = "insert" THEN Part("insert", stu, <<>>)
        ELSE Part("delete", refseg, refseg)

(* The list parts built by the loop over the opcodes *)
PartsOf(ops, rt, ht) == [n \in 1..Len(ops) |-> HighlightPart(ops[n], rt, ht)]

highlight_parts(ref, hyp) ==
    PartsOf(get_opcodes(RefTokens(ref), HypTokens(hyp)), RefTokens(ref), HypTokens(hyp))

OpenReplace == "<span title='Replace: "

Arrow == " -> "

StyleReplace == "' style='background:#ffd6d6;color:#800'>"

OpenInsert == "<span title='Insertion' style='background:#d6ffd6;color:#060'>"

OpenDelete == "<span title='Missing (should be present): "

StyleDelete == "' style='background:#d6e0ff;color:#003;text-decoration:line-through'>"

CloseSpan == "</span>"

(* The f-string of one part *)
PartHtml(part) ==
    IF part.tag = "equal" THEN part.text
    ELSE IF part.tag = "replace"
    THEN <<OpenReplace>> \o part.annot \o <<Arrow>> \o part.text \o <<StyleReplace>>
         \o part.text \o <<CloseSpan>>
    ELSE IF part.tag = "insert"
    THEN <<OpenInsert>> \o part.text \o <<CloseSpan>>
    ELSE <<OpenDelete>> \o part.annot \o <<StyleDelete>> \o part.text \o <<CloseSpan>>

(* " ".join(parts) *)
RECURSIVE JoinHtml(_)
JoinHtml(parts) ==
    IF parts = <<>> THEN <<>>
    ELSE IF Len(parts) = 1 THEN PartHtml(parts[1])
    ELSE PartHtml(Head(parts)) \o <<" ">> \o JoinHtml(Tail(parts))

highlight_html(ref, hyp) == JoinHtml(highlight_parts(ref, hyp))

-----------------------------------------------------------------------------
(* Metric adapters.  A provider call either raises or returns a raw score, *)
(* here in units of 1/100000; env gives the outcome of each provider for   *)
(* the texts at hand: [ok |-> FALSE, v |-> 0] or [ok |-> TRUE, v |-> raw]. *)

Providers == {"BLEU", "chrF", "TER", "BERT_F1"}

(* round(x, 4) of a raw score, in units of 1/10000 *)
Round4(rawE5) == (rawE5 + 5) \div 10

(* round(x, 2) of a raw score, in units of 1/10000 *)
Round2(rawE5) == ((rawE5 + 500) \div 1000) * 100

(* try: out[m] = round(provider(...), 4)  except Exception: out[m] = None *)
TryRound4(outcome) == IF outcome.ok THEN Some(Round4(outcome.v)) ELSE None

(* if ref and sacrebleu: / if ref and bert_score: *)
RefGuard(ref) == Truthy(ref)

(* app.py compute_scores: the providers it invokes *)
compute_scores_invoked(hyp, ref, lib) ==
    (IF RefGuard(ref) /\ lib.sacrebleu THEN {"BLEU", "chrF", "TER"} ELSE {})
    \cup (IF RefGuard(ref) /\ lib.bert_score THEN {"BERT_F1"} ELSE {})

(* app.py compute_scores *)
compute_scores(hyp, ref, lib, env) ==
    LET lexical == RefGuard(ref) /\ lib.sacrebleu
        semantic == RefGuard(ref) /\ lib.bert_score
    IN  [BLEU |-> IF lexical THEN TryRound4(env["BLEU"]) ELSE None,
         chrF |-> IF lexical THEN TryRound4(env["chrF"]) ELSE None,
         TER |-> IF lexical THEN TryRound4(env["TER"]) ELSE None,
         BERT_F1 |-> IF semantic THEN TryRound4(env["BERT_F1"]) ELSE None,
         similarity |-> Some(RatioE4(OrEmpty(ref), OrEmpty(hyp)))]

(* utils.py calculate_metrics: no try block, a provider exception leaves   *)
(* the function; raised tells whether it did                               *)
utils_calculate_metrics(hyp, ref, lib, env) ==
    LET lexRaises == lib.sacrebleu /\ (\E m \in {"BLEU", "chrF", "TER"} : ~env[m].ok)
        bertRaises == lib.bert_score /\ ~env["BERT_F1"].ok
    IN  IF lexRaises \/ bertRaises
        THEN [raised |-> TRUE, out |-> [m \in Providers |-> None]]
        ELSE [raised |-> FALSE,
              out |-> [m \in Providers |->
                         IF m = "BERT_F1"
                         THEN IF lib.bert_score THEN Some(Round2(env[m].v * 100)) ELSE None
                         ELSE IF lib.sacrebleu THEN Some(Round2(env[m].v)) ELSE None]]

(* frontend/app.py calculate_metrics: one try block around the import and  *)
(* the three sacrebleu metrics, one around the import and bert_score       *)
frontend_calculate_metrics(hyp, ref, lib, env) ==
    LET lexOk == lib.sacrebleu /\ (\A m \in {"BLEU", "chrF", "TER"} : env[m].ok)
        bertOk == lib.bert_score /\ env["BERT_F1"].ok
    IN  [raised |-> FALSE,
         out |-> [m \in Providers |->
                    IF m = "BERT_F1"
                    THEN IF bertOk THEN Some(Round2(env[m].v * 100)) ELSE None
                    ELSE IF lexOk THEN Some(Round2(env[m].v)) ELSE None]]

-----------------------------------------------------------------------------
(* Specification SpecAlign: token_opcodes and highlight_html applied to    *)
(* every pair of texts                                                     *)

Vocab == {<<"a">>, <<"b", "c">>}

TokenSeqs == UNION {[1..k -> Vocab] : k \in 0..MaxTokens}

Pads == {<<>>, <<" ">>}

(* Texts of at most MaxTokens words, with optional leading and trailing blank *)
Texts == {lead \o Join(toks) \o trail : toks \in TokenSeqs, lead \in Pads, trail \in Pads}

OptTexts == {None} \cup {Some(t) : t \in Texts}

NoRet == [inserts |-> -1]

(* The application state right after start-up: empty tables, empty session *)
ClockStart == 100000

NoCall == [fn |-> "none", done |-> TRUE]

EmptyDict == [k \in {} |-> 0]

NothingShown == {}

AppStart ==
    /\ exercises = <<>>
    /\ submissions = {}
    /\ next_sub_id = 1
    /\ session = EmptyDict
    /\ keystrokes_map = EmptyDict
    /\ start_time_map = EmptyDict
    /\ now = ClockStart
    /\ shown = NothingShown

LibChoices == [sacrebleu : BOOLEAN, bert_score : BOOLEAN]

NoLibs == [sacrebleu |-> FALSE, bert_score |-> FALSE]

InitAlign ==
    /\ AppStart
    /\ libs = NoLibs
    /\ \E f \in {"token_opcodes", "highlight_html"}, r \in OptTexts, h \in OptTexts :
        call = [fn |-> f, ref |-> r, hyp |-> h, spans |-> <<>>, ret |-> NoRet, done |-> FALSE]

CallTokenOpcodes ==
    /\ call.fn = "token_opcodes"
    /\ ~call.done
    /\ call' = [call EXCEPT !.spans = AlignerSpans(call.ref, call.hyp),
                            !.ret = token_opcodes(call.ref, call.hyp),
                            !.done = TRUE]
    /\ UNCHANGED <<libs, appVars>>

CallHighlightHtml ==
    /\ call.fn = "highlight_html"
    /\ ~call.done
    /\ call' = [call EXCEPT !.spans = AlignerSpans(call.ref, call.hyp),
                            !.ret = highlight_html(call.ref, call.hyp),
                            !.done = TRUE]
    /\ UNCHANGED <<libs, appVars>>

NextAlign ==
    \/ CallTokenOpcodes
    \/ CallHighlightHtml

SpecAlign == InitAlign /\ [][NextAlign]_vars

-----------------------------------------------------------------------------
(* Claims about the aligner and token_opcodes (checked under SpecAlign)    *)

AlignDone == call.fn = "token_opcodes" /\ call.done

RECURSIVE ConcatRefSlices(_, _)
ConcatRefSlices(spans, rt) ==
    IF spans = <<>> THEN <<>>
    ELSE Slice(rt, Head(spans).i1, Head(spans).i2) \o ConcatRefSlices(Tail(spans), rt)

RECURSIVE ConcatHypSlices(_, _)
ConcatHypSlices(spans, ht) ==
    IF spans = <<>> THEN <<>>
    ELSE Slice(ht, Head(spans).j1, Head(spans).j2) \o ConcatHypSlices(Tail(spans), ht)

SpanShapeOK(op, rt, ht) ==
    /\ op.tag \in {"equal", "insert", "delete", "replace"}
    /\ 0 <= op.i1 /\ op.i1 <= op.i2 /\ op.i2 <= Len(rt)
    /\ 0 <= op.j1 /\ op.j1 <= op.j2 /\ op.j2 <= Len(ht)
    /\ op.tag = "equal" =>
          /\ op.i2 - op.i1 = op.j2 - op.j1
          /\ Slice(rt, op.i1, op.i2) = Slice(ht, op.j1, op.j2)
    /\ op.tag = "insert" => op.i1 = op.i2
    /\ op.tag = "delete" => op.j1 = op.j2
    /\ op.tag = "replace" => op.i1 < op.i2 /\ op.j1 < op.j2

SpansPartition(spans, rt, ht) ==
    /\ spans = <<>> => rt = <<>> /\ ht = <<>>
    /\ spans # <<>> =>
          /\ spans[1].i1 = 0 /\ spans[1].j1 = 0
          /\ spans[Len(spans)].i2 = Len(rt) /\ spans[Len(spans)].j2 = Len(ht)
    /\ \A n \in 1..(Len(spans) - 1) :
          spans[n + 1].i1 = spans[n].i2 /\ spans[n + 1].j1 = spans[n].j2
    /\ \A n \in 1..Len(spans) : SpanShapeOK(spans[n], rt, ht)
    /\ ConcatRefSlices(spans, rt) = rt
    /\ ConcatHypSlices(spans, ht) = ht

(* C1: the ordered edit spans of the aligner partition both token          *)
(* sequences: they start at (0,0), each starts where the previous ended,   *)
(* they end at (len(ref_tokens), len(hyp_tokens)), the slices concatenate  *)
(* to the two token sequences, and every span has the shape of its tag.    *)
C1_SpansPartition ==
    AlignDone => SpansPartition(call.spans, RefTokens(call.ref), HypTokens(call.hyp))

C1_Witness ==
    /\ AlignDone
    /\ Len(call.spans) >= 3
    /\ \E n \in 1..Len(call.spans) : call.spans[n].tag = "replace"
    /\ \E n \in 1..Len(call.spans) : call.spans[n].tag = "equal"
    /\ \E n \in 1..Len(call.spans) : call.spans[n].tag \in {"insert", "delete"}

(* C2: edit_ops is 0 exactly when the two token sequences are identical;   *)
(* identical sequences give inserts = deletes = replaces = 0 and any       *)
(* difference gives edit_ops >= 1.                                         *)
C2_ZeroIffIdentical ==
    AlignDone =>
        /\ (call.ret.edit_ops = 0) <=> (RefTokens(call.ref) = HypTokens(call.hyp))
        /\ RefTokens(call.ref) = HypTokens(call.hyp) =>
              call.ret.inserts = 0 /\ call.ret.deletes = 0 /\ call.ret.replaces = 0
        /\ RefTokens(call.ref) # HypTokens(call.hyp) => call.ret.edit_ops >= 1

C2_Witness ==
    /\ AlignDone
    /\ call.ref # call.hyp
    /\ RefTokens(call.ref) = HypTokens(call.hyp)
    /\ Len(RefTokens(call.ref)) >= 2
    /\ call.ret.edit_ops = 0

SetMin(S) == CHOOSE x \in S : \A y \in S : x <= y

(* The least cost of any span sequence that satisfies the edit-span        *)
(* invariants from position (i, j) on: the token-level edit distance.  A   *)
(* span of k tokens costs the same as k spans of one token (a replace of   *)
(* p tokens by q costs max(p, q), as do min(p, q) replaces of one token    *)
(* and |p - q| inserts or deletes), so spans of one token reach the least. *)
RECURSIVE MinSpanCost(_, _, _, _)
MinSpanCost(rt, ht, i, j) ==
    IF i = Len(rt) THEN Len(ht) - j
    ELSE IF j = Len(ht) THEN Len(rt) - i
    ELSE SetMin({1 + MinSpanCost(rt, ht, i, j + 1),
                 1 + MinSpanCost(rt, ht, i + 1, j),
                 (IF rt[i + 1] = ht[j + 1] THEN 0 ELSE 1)
                     + MinSpanCost(rt, ht, i + 1, j + 1)})

EditDistance(rt, ht) == MinSpanCost(rt, ht, 0, 0)

(* C3 as stated: edit_ops equals the token-level edit distance.            *)
C3_Original ==
    AlignDone => call.ret.edit_ops = EditDistance(RefTokens(call.ref), HypTokens(call.hyp))

(* C3 (amended): edit_ops is never smaller than the token-level edit       *)
(* distance and never larger than len(ref_tokens) + len(hyp_tokens); the   *)
(* longest-matching-block recursion can exceed the minimum.                *)
C3_UpperBoundOfDistance ==
    AlignDone =>
        /\ call.ret.edit_ops >= EditDistance(RefTokens(call.ref), HypTokens(call.hyp))
        /\ call.ret.edit_ops <= Len(RefTokens(call.ref)) + Len(HypTokens(call.hyp))

C3_Witness ==
    /\ AlignDone
    /\ call.ret.edit_ops > EditDistance(RefTokens(call.ref), HypTokens(call.hyp))

(* The longest-matching-block recursion with every choice among the        *)
(* equally long candidate blocks: the set of block lists it can produce.   *)
RECURSIVE AnyMatchRec(_, _, _, _, _, _)
AnyMatchRec(a, b, alo, ahi, blo, bhi) ==
    LET k == LongestSize(a, b, alo, ahi, blo, bhi)
        starts == LongestStarts(a, b, alo, ahi, blo, bhi)
        left(p) == IF alo < p[1] /\ blo < p[2]
                   THEN AnyMatchRec(a, b, alo, p[1], blo, p[2]) ELSE {<<>>}
        right(p) == IF p[1] + k < ahi /\ p[2] + k < bhi
                    THEN AnyMatchRec(a, b, p[1] + k, ahi, p[2] + k, bhi) ELSE {<<>>}
    IN  IF k = 0 THEN {<<>>}
        ELSE UNION {{l \o << <<p[1], p[2], k>> >> \o r : l \in left(p), r \in right(p)} :
                       p \in starts}

CountsOfSpans(ops) ==
    [inserts |-> CountTag(ops, "insert"), deletes |-> CountTag(ops, "delete"),
     replaces |-> CountTag(ops, "replace"),
     edit_ops |-> CountTag(ops, "insert") + CountTag(ops, "delete") + CountTag(ops, "replace")]

AnyChoiceCounts(rt, ht) ==
    {CountsOfSpans(OpcodesFrom(BlocksWithSentinel(bl, Len(rt), Len(ht)), 0, 0, <<>>)) :
        bl \in AnyMatchRec(rt, ht, 0, Len(rt), 0, Len(ht))}

RetCounts(ret) ==
    [inserts |-> ret.inserts, deletes |-> ret.deletes, replaces |-> ret.replaces,
     edit_ops |-> ret.edit_ops]

(* C10 as stated: every other tie-break choice yields the same inserts,    *)
(* deletes, replaces and edit_ops as token_opcodes.                        *)
C10_Original ==
    AlignDone =>
        \A c \in AnyChoiceCounts(RefTokens(call.ref), HypTokens(call.hyp)) :
            c = RetCounts(call.ret)

(* C10 (amended): the tie-break can change the aggregate counts; what all  *)
(* choices share with token_opcodes is whether edit_ops is 0.              *)
C10_ChoicesAgreeOnZero ==
    AlignDone =>
        /\ \A c \in AnyChoiceCounts(RefTokens(call.ref), HypTokens(call.hyp)) :
              (c.edit_ops = 0) <=> (call.ret.edit_ops = 0)

C10_Witness ==
    /\ AlignDone
    /\ \E c \in AnyChoiceCounts(RefTokens(call.ref), HypTokens(call.hyp)) :
          c.edit_ops # call.ret.edit_ops

-----------------------------------------------------------------------------
(* Claims about highlight_html (checked under SpecAlign)                   *)

HighlightDone == call.fn = "highlight_html" /\ call.done

Markup == {OpenReplace, Arrow, StyleReplace, OpenInsert, OpenDelete, StyleDelete, CloseSpan}

Malformed == Part("malformed", <<>>, <<>>)

FlushRun(acc, cur) == IF cur.text = <<>> THEN acc ELSE Append(acc, cur)

(* Reads the HTML text back: the runs of plain text and the spans, each    *)
(* with its tag, the text between its tags and the reference text of its   *)
(* title.  mode is where the reader is: in plain text, in the title of a   *)
(* replace span before or after the arrow, in the title of a delete span,  *)
(* or between the tags of a span.                                          *)
RECURSIVE ScanHtml(_, _, _, _)
ScanHtml(s, mode, cur, acc) ==
    IF s = <<>>
    THEN IF mode = "plain" THEN FlushRun(acc, cur) ELSE Append(acc, Malformed)
    ELSE LET c == Head(s)
             more(t) == [cur EXCEPT !.text = Append(cur.text, t)]
             note(t) == [cur EXCEPT !.annot = Append(cur.annot, t)]
         IN  IF mode = "plain"
             THEN IF c = OpenReplace
                  THEN ScanHtml(Tail(s), "title", Part("replace", <<>>, <<>>), FlushRun(acc, cur))
                  ELSE IF c = OpenInsert
                  THEN ScanHtml(Tail(s), "body", Part("insert", <<>>, <<>>), FlushRun(acc, cur))
                  ELSE IF c = OpenDelete
                  THEN ScanHtml(Tail(s), "missing", Part("delete", <<>>, <<>>), FlushRun(acc, cur))
                  ELSE IF c \in Markup THEN Append(acc, Malformed)
                  ELSE ScanHtml(Tail(s), "plain", more(c), acc)
             ELSE IF mode = "title"
             THEN IF c = Arrow THEN ScanHtml(Tail(s), "echo", cur, acc)
                  ELSE IF c \in Markup THEN Append(acc, Malformed)
                  ELSE ScanHtml(Tail(s), "title", note(c), acc)
             ELSE IF mode = "echo"
             THEN IF c = StyleReplace THEN ScanHtml(Tail(s), "body", cur, acc)
                  ELSE IF c \in Markup THEN Append(acc, Malformed)
                  ELSE ScanHtml(Tail(s), "echo", cur, acc)
             ELSE IF mode = "missing"
             THEN IF c = StyleDelete THEN ScanHtml(Tail(s), "body", cur, acc)
                  ELSE IF c \in Markup THEN Append(acc, Malformed)
                  ELSE ScanHtml(Tail(s), "missing", note(c), acc)
             ELSE IF c = CloseSpan
                  THEN ScanHtml(Tail(s), "plain", Part("equal", <<>>, <<>>), Append(acc, cur))
                  ELSE IF c \in Markup THEN Append(acc, Malformed)
                  ELSE ScanHtml(Tail(s), "body", more(c), acc)

RunsOf(html) == ScanHtml(html, "plain", Part("equal", <<>>, <<>>), <<>>)

IsSpanRun(run) == run.tag \in {"replace", "insert", "delete"}

(* Every span is set off from its neighbours by a blank in the plain text  *)
SingleSpaced(runs) ==
    \A n \in 1..Len(runs) :
        /\ runs[n].tag # "malformed"
        /\ IsSpanRun(runs[n]) /\ n > 1 =>
              /\ runs[n - 1].tag = "equal"
              /\ runs[n - 1].text[Len(runs[n - 1].text)] = " "
        /\ IsSpanRun(runs[n]) /\ n < Len(runs) =>
              /\ runs[n + 1].tag = "equal"
              /\ runs[n + 1].text[1] = " "

(* A run of plain text without the one blank that joins it to the span     *)
(* before it and the one that joins it to the span after it; a run that is *)
(* only the blank between two spans is no segment                          *)
TrimRun(run, lead, trail) ==
    IF run.tag # "equal" THEN run
    ELSE IF lead /\ trail /\ run.text = <<" ">> THEN Part("separator", <<>>, <<>>)
    ELSE LET t1 == IF lead THEN Tail(run.text) ELSE run.text
             t2 == IF trail /\ t1 # <<>> THEN SubSeq(t1, 1, Len(t1) - 1) ELSE t1
         IN  Part("equal", t2, <<>>)

TrimRuns(runs) == [n \in 1..Len(runs) |-> TrimRun(runs[n], n > 1, n < Len(runs))]

SegmentsOf(runs) == SelectSeq(TrimRuns(runs), LAMBDA r : r.tag # "separator")

RECURSIVE ShownTokens(_)
ShownTokens(segs) ==
    IF segs = <<>> THEN <<>>
    ELSE (IF Head(segs).tag = "delete" THEN <<>> ELSE Split(Head(segs).text))
         \o ShownTokens(Tail(segs))

RECURSIVE MissingTokens(_)
MissingTokens(segs) ==
    IF segs = <<>> THEN <<>>
    ELSE (IF Head(segs).tag = "delete" THEN Split(Head(segs).text) ELSE <<>>)
         \o MissingTokens(Tail(segs))

RECURSIVE DeletedRefTokens(_, _)
DeletedRefTokens(spans, rt) ==
    IF spans = <<>> THEN <<>>
    ELSE (IF Head(spans).tag = "delete" THEN Slice(rt, Head(spans).i1, Head(spans).i2) ELSE <<>>)
         \o DeletedRefTokens(Tail(spans), rt)

SegmentOfSpan(seg, op, rt, ht) ==
    /\ seg.tag = op.tag
    /\ seg.text = Join(IF op.tag = "delete" THEN Slice(rt, op.i1, op.i2)
                                            ELSE Slice(ht, op.j1, op.j2))
    /\ op.tag = "replace" => seg.annot = Join(Slice(rt, op.i1, op.i2))

HighlightSegments(html, runs, segs, spans, rt, ht) ==
    /\ SingleSpaced(runs)
    /\ Len(segs) = Len(spans)
    /\ \A n \in 1..Len(segs) : n <= Len(spans) => SegmentOfSpan(segs[n], spans[n], rt, ht)
    /\ ShownTokens(segs) = ht
    /\ MissingTokens(segs) = DeletedRefTokens(spans, rt)
    /\ rt = ht => html = Join(ht)

(* C11: highlight_html emits one segment per edit span, in span order,     *)
(* joined by single spaces: an equal span gives its hypothesis tokens      *)
(* untagged, a replace span its hypothesis tokens tagged with the          *)
(* reference slice in the title, an insert span its hypothesis tokens      *)
(* tagged as inserted, a delete span its reference tokens tagged as        *)
(* missing; the non-delete segments read in order are the hypothesis       *)
(* tokens, the delete segments hold each deleted reference token once, and *)
(* identical token sequences give the hypothesis tokens with no tag.       *)
C11_OneSegmentPerSpan ==
    HighlightDone =>
        HighlightSegments(call.ret, RunsOf(call.ret), SegmentsOf(RunsOf(call.ret)),
                          call.spans, RefTokens(call.ref), HypTokens(call.hyp))

C11_Witness ==
    /\ HighlightDone
    /\ Len(call.spans) >= 3
    /\ \E n \in 1..Len(call.ret) : call.ret[n] = OpenReplace
    /\ \E n \in 1..Len(call.ret) : call.ret[n] = OpenDelete
    /\ \E n \in 1..Len(call.spans) : call.spans[n].tag = "equal"

-----------------------------------------------------------------------------
(* Specification SpecPoints: compute_points applied to metric result sets  *)

(* Marks a key that the dict does not hold (never a value of the dict) *)
Absent == <<0, 0>>

BleuInputs == {Absent, None, Some(0), Some(49999), Some(50000), Some(800000)}

BertInputs == {Absent, None, Some(-10000), Some(-3000), Some(9000), Some(900000)}

SimInputs == {Absent, None, Some(0), Some(1999), Some(2000), Some(9500)}

ChrfInputs == {Absent, Some(500000)}

TerInputs == {None, Some(250000)}

TimeInputs == {0, 999, 1000, 3000, 20000}

MaxEditOps == 4

(* The dict with the given entries, leaving out the absent keys *)
ScoreDict(bleu, chrf, ter, bert, sim) ==
    LET all == [k \in MetricNames |->
                   IF k = "BLEU" THEN bleu ELSE IF k = "chrF" THEN chrf
                   ELSE IF k = "TER" THEN ter ELSE IF k = "BERT_F1" THEN bert ELSE sim]
    IN  [k \in {n \in MetricNames : all[n] # Absent} |-> all[k]]

InitPoints ==
    /\ AppStart
    /\ libs = NoLibs
    /\ \E bleu \in BleuInputs, chrf \in ChrfInputs, ter \in TerInputs, bert \in BertInputs,
       sim \in SimInputs, t \in TimeInputs, e \in 0..MaxEditOps :
        call = [fn |-> "compute_points", scores |-> ScoreDict(bleu, chrf, ter, bert, sim),
                time_spent |-> t, edit_ops |-> e, ret |-> -1, done |-> FALSE]

CallComputePoints ==
    /\ call.fn = "compute_points"
    /\ ~call.done
    /\ call' = [call EXCEPT !.ret = compute_points(call.scores, call.time_spent, call.edit_ops),
                            !.done = TRUE]
    /\ UNCHANGED <<libs, appVars>>

NextPoints == CallComputePoints

SpecPoints == InitPoints /\ [][NextPoints]_vars

-----------------------------------------------------------------------------
(* Claims about compute_points (checked under SpecPoints)                  *)

PointsDone == call.fn = "compute_points" /\ call.done

WithMetric(scores, key, v) ==
    [k \in (DOMAIN scores) \cup {key} |-> IF k = key THEN v ELSE scores[k]]

InputsOf(key) ==
    IF key = "BLEU" THEN BleuInputs ELSE IF key = "BERT_F1" THEN BertInputs ELSE SimInputs

(* v raises the metric: from None or absent to any value of the range, or  *)
(* from a number to a number at least as large                             *)
Raises(old, v) == v # None /\ v # Absent /\ (old = None \/ v[1] >= old[1])

(* C4: compute_points is never negative; raising BLEU, BERT_F1 or          *)
(* similarity (also from None to a value) never lowers it; raising         *)
(* time_spent or edit_ops never raises it.                                 *)
C4_NonNegativeMonotone ==
    PointsDone =>
        /\ call.ret >= 0
        /\ \A key \in {"BLEU", "BERT_F1", "similarity"} :
              \A v \in InputsOf(key) :
                  Raises(Get(call.scores, key), v) =>
                      compute_points(WithMetric(call.scores, key, v),
                                     call.time_spent, call.edit_ops) >= call.ret
        /\ \A t \in TimeInputs :
              t >= call.time_spent =>
                  compute_points(call.scores, t, call.edit_ops) <= call.ret
        /\ \A e \in 0..MaxEditOps :
              e >= call.edit_ops =>
                  compute_points(call.scores, call.time_spent, e) <= call.ret

C4_Witness ==
    /\ PointsDone
    /\ call.ret > 0
    /\ Get(call.scores, "BERT_F1") = None
    /\ \E v \in BleuInputs :
          /\ Raises(Get(call.scores, "BLEU"), v)
          /\ compute_points(WithMetric(call.scores, "BLEU", v),
                            call.time_spent, call.edit_ops) > call.ret
    /\ \E t \in TimeInputs :
          t > call.time_spent /\ compute_points(call.scores, t, call.edit_ops) = 0

(* floor(n / d) for d > 0 *)
Floor(n, d) == n \div d

FloorFormula(scores, time_spent, edit_ops) ==
    LET raw == 10
               + Floor(OrZero(Get(scores, "BLEU")) * 2, 100000)
               + Floor(OrZero(Get(scores, "BERT_F1")) * 4, 100000)
               + Floor(OrZero(Get(scores, "similarity")) * 5, 10000)
               - Floor(time_spent, 1000)
               - Floor(edit_ops, 2)
    IN  IF raw < 0 THEN 0 ELSE raw

TruncFormula(scores, time_spent, edit_ops) ==
    LET tr(n, d) == IF n >= 0 THEN n \div d ELSE -((-n) \div d)
        raw == 10
               + tr(OrZero(Get(scores, "BLEU")) * 2, 100000)
               + tr(OrZero(Get(scores, "BERT_F1")) * 4, 100000)
               + tr(OrZero(Get(scores, "similarity")) * 5, 10000)
               - tr(time_spent, 1000)
               - tr(edit_ops, 2)
    IN  IF raw < 0 THEN 0 ELSE raw

IsFormulaExample ==
    /\ Get(call.scores, "BLEU") = Some(800000)
    /\ Get(call.scores, "BERT_F1") = Some(900000)
    /\ Get(call.scores, "similarity") = Some(9500)
    /\ call.time_spent = 3000
    /\ call.edit_ops = 4

(* C5 as stated: the result is max(0, 10 + floor(bleu*0.2) +               *)
(* floor(bert_f1*0.4) + floor(similarity*5) - floor(time_spent/10) -       *)
(* floor(edit_ops*0.5)) for every number, None and absent counting as 0.   *)
C5_Original ==
    PointsDone =>
        call.ret = FloorFormula(call.scores, call.time_spent, call.edit_ops)

(* C5 (amended): the same formula with every term truncated toward zero    *)
(* instead of floored (the two differ for a negative BERT_F1); None and    *)
(* absent metrics count as 0, the example gives 61, and chrF and TER do    *)
(* not influence the result.                                               *)
C5_TruncatingFormula ==
    PointsDone =>
        /\ call.ret = TruncFormula(call.scores, call.time_spent, call.edit_ops)
        /\ IsFormulaExample => call.ret = 61
        /\ \A chrf \in ChrfInputs \cup {None}, ter \in TerInputs \cup {Absent} :
              compute_points(
                  ScoreDict(Get(call.scores, "BLEU"), chrf, ter,
                            Get(call.scores, "BERT_F1"), Get(call.scores, "similarity")),
                  call.time_spent, call.edit_ops) = call.ret

C5_Witness ==
    /\ PointsDone
    /\ IsFormulaExample
    /\ call.ret = 61

-----------------------------------------------------------------------------
(* Specification SpecScores: the three metric adapters applied to texts,   *)
(* for every combination of installed packages and provider outcomes       *)

ScoreRefs == {None, Some(<<>>), Some(<<" ">>), Some(<<" ", " ">>), Some(<<"a">>),
              Some(<<"a", " ", "b", "c">>)}

ScoreHyps == {None, Some(<<>>), Some(<<"a">>), Some(<<"b", "c", " ", "a">>)}

Raise == [ok |-> FALSE, v |-> 0]

Returns(raw) == [ok |-> TRUE, v |-> raw]

OutcomesOf(m) ==
    IF m = "BLEU" THEN {Raise, Returns(0), Returns(4234567)}
    ELSE IF m = "chrF" THEN {Raise, Returns(6012344)}
    ELSE IF m = "TER" THEN {Raise, Returns(5000000)}
    ELSE {Raise, Returns(-31234), Returns(91234)}

Envs == {e \in [Providers -> [ok : BOOLEAN, v : {0, 4234567, 6012344, 5000000, -31234, 91234}]] :
            \A m \in Providers : e[m] \in OutcomesOf(m)}

NoScores == [raised |-> FALSE, out |-> [m \in Providers |-> None]]

InitScores ==
    /\ AppStart
    /\ libs \in LibChoices
    /\ \E h \in ScoreHyps, r \in ScoreRefs, e \in Envs :
        call = [fn |-> "score", adapter |-> "", hyp |-> h, ref |-> r, env |-> e,
                raised |-> FALSE, out |-> NoScores.out, similarity |-> None,
                invoked |-> {}, done |-> FALSE]

CallComputeScores ==
    /\ call.fn = "score"
    /\ ~call.done
    /\ LET res == compute_scores(call.hyp, call.ref, libs, call.env)
       IN  call' = [call EXCEPT !.adapter = "app.compute_scores",
                                !.out = [m \in Providers |-> res[m]],
                                !.similarity = res.similarity,
                                !.invoked = compute_scores_invoked(call.hyp, call.ref, libs),
                                !.done = TRUE]
    /\ UNCHANGED <<libs, appVars>>

(* utils.py and frontend/app.py take str arguments *)
CallUtilsCalculateMetrics ==
    /\ call.fn = "score"
    /\ ~call.done
    /\ call.hyp # None /\ call.ref # None
    /\ LET res == utils_calculate_metrics(call.hyp, call.ref, libs, call.env)
       IN  call' = [call EXCEPT !.adapter = "utils.calculate_metrics",
                                !.raised = res.raised,
                                !.out = res.out,
                                !.done = TRUE]
    /\ UNCHANGED <<libs, appVars>>

CallFrontendCalculateMetrics ==
    /\ call.fn = "score"
    /\ ~call.done
    /\ call.hyp # None /\ call.ref # None
    /\ LET res == frontend_calculate_metrics(call.hyp, call.ref, libs, call.env)
       IN  call' = [call EXCEPT !.adapter = "frontend.calculate_metrics",
                                !.raised = res.raised,
                                !.out = res.out,
                                !.done = TRUE]
    /\ UNCHANGED <<libs, appVars>>

NextScores ==
    \/ CallComputeScores
    \/ CallUtilsCalculateMetrics
    \/ CallFrontendCalculateMetrics

SpecScores == InitScores /\ [][NextScores]_vars

-----------------------------------------------------------------------------
(* Claims about the metric adapters (checked under SpecScores)             *)

ScoresDone == call.fn = "score" /\ call.done

(* str.strip() of the text is empty: None, "" or whitespace only *)
IsBlank(t) == BlankStr(OrEmpty(t))

(* C6: when the reference given to compute_scores is None, empty or        *)
(* whitespace only, BLEU, chrF, TER and BERT_F1 are None whatever is       *)
(* installed, no provider is invoked, and similarity is a number in [0,1]. *)
C6_BlankReferenceNoLibraryMetric ==
    (ScoresDone /\ call.adapter = "app.compute_scores" /\ IsBlank(call.ref)) =>
        /\ \A m \in Providers : call.out[m] = None
        /\ call.invoked = {}
        /\ call.similarity # None
        /\ 0 <= call.similarity[1] /\ call.similarity[1] <= 10000

(* The provider of metric m is present in the process *)
Installed(m) == IF m = "BERT_F1" THEN libs.bert_score ELSE libs.sacrebleu

Succeeded(m) == Installed(m) /\ call.env[m].ok

(* C7: for every combination of providers absent, succeeding or raising,   *)
(* each of the three adapters returns without raising, with None for       *)
(* exactly the metrics whose own provider is absent or raised and a value  *)
(* for every metric whose provider succeeded.                              *)
C7_FailuresIsolatedPerMetric ==
    (ScoresDone /\ call.ref # None /\ ~IsBlank(call.ref)) =>
        /\ ~call.raised
        /\ \A m \in Providers : (call.out[m] = None) <=> ~Succeeded(m)

-----------------------------------------------------------------------------
(* Specification Spec: the Streamlit application app.py.  Every action is  *)
(* one run of the script for one interaction of one browser session.       *)

MaxEx == 1
MaxSubs == 2
MaxElapsed == 1000
MaxKeystrokes == 3

ExerciseInputs ==
    {[source |-> <<"s">>, mt_output |-> <<"a">>, reference |-> <<"a", " ", "b", "c">>],
     [source |-> <<" ">>, mt_output |-> <<"a">>, reference |-> <<"a">>]}

StudentEdits == {<<"a", " ", "a">>}

Names == {<<>>, <<" ">>, <<"n">>}

Kinds == {"edit"}

TickSteps == {1000}

AllRaise == [m \in Providers |-> Raise]

AllReturn ==
    [m \in Providers |->
        IF m = "BLEU" THEN Returns(4234567) ELSE IF m = "chrF" THEN Returns(6012344)
        ELSE IF m = "TER" THEN Returns(5000000) ELSE Returns(91234)]

AppEnvs == {AllReturn}

AppLibs == {l \in LibChoices : l.sacrebleu /\ l.bert_score}

Init ==
    /\ AppStart
    /\ libs \in AppLibs
    /\ call = NoCall

(* submission_type as stored *)
TypeLabel(kind) == IF kind = "edit" THEN "Edit MT output" ELSE "Submit a new translation"

AreaKey(kind, ex) == <<kind, ex>>

PrevKey(kind, ex) == <<IF kind = "edit" THEN "prev_edit" ELSE "prev_custom", ex>>

(* The student page down to the text area: create the session entries of   *)
(* the chosen exercise and submission type when they are missing           *)
DefaultText(kind, ex) == IF kind = "edit" THEN exercises[ex].mt_output ELSE <<>>

PreludeSession(kind, ex) ==
    IF AreaKey(kind, ex) \in DOMAIN session THEN session
    ELSE Put(Put(session, AreaKey(kind, ex), DefaultText(kind, ex)),
             PrevKey(kind, ex), DefaultText(kind, ex))

PreludeKeystrokes(kind, ex) ==
    IF AreaKey(kind, ex) \in DOMAIN session THEN keystrokes_map
    ELSE Put(keystrokes_map, ex, 0)

StudentText(kind, ex) == PreludeSession(kind, ex)[AreaKey(kind, ex)]

(* keystrokes_map.get(ex_id, 0) or len(student_text) *)
KeystrokesShown(kind, ex) ==
    IF GetOr(PreludeKeystrokes(kind, ex), ex, 0) # 0
    THEN GetOr(PreludeKeystrokes(kind, ex), ex, 0)
    ELSE Len(StudentText(kind, ex))

TokenSet(text) == {Split(text)[n] : n \in 1..Len(Split(text))}

(* Words of the student page above the buttons: source, MT draft, text area *)
PageTokens(kind, ex) ==
    TokenSet(exercises[ex].source) \cup TokenSet(exercises[ex].mt_output)
    \cup TokenSet(StudentText(kind, ex))

StudentPage(kind, ex, extra) == PageTokens(kind, ex) \cup extra

(* Variant: a timer that is running keeps its first start time *)
start_timer_keep_first(ex, stm) == IF ex \in DOMAIN stm THEN stm ELSE Put(stm, ex, now)

(* start_timer_for / reset_timer_for *)
start_timer_for(ex, stm) == Put(stm, ex, now)

reset_timer_start(ex, stm) == Pop(stm, ex)

reset_timer_keystrokes(ex, km) == Put(km, ex, 0)

Abs(x) == IF x < 0 THEN -x ELSE x

(* Instructor: Create exercise / Save exercise *)
SaveExercise ==
    \E inp \in ExerciseInputs :
        /\ Len(exercises) < MaxEx
        /\ IF BlankStr(inp.source)
           THEN UNCHANGED exercises
           ELSE exercises' = Append(exercises, inp)
        /\ UNCHANGED <<call, libs, submissions, next_sub_id, session, keystrokes_map,
                       start_time_map, now, shown>>

(* Student: choose an exercise and a submission type (the page is drawn) *)
ChooseExercise ==
    \E ex \in 1..Len(exercises), kind \in Kinds :
        /\ session' = PreludeSession(kind, ex)
        /\ keystrokes_map' = PreludeKeystrokes(kind, ex)
        /\ shown' = StudentPage(kind, ex, {})
        /\ UNCHANGED <<call, libs, exercises, submissions, next_sub_id, start_time_map, now>>

(* Student: change the text area; on_change runs update_keystrokes, then   *)
(* the page is drawn again                                                 *)
EditText ==
    \E ex \in 1..Len(exercises), kind \in Kinds, txt \in StudentEdits :
        /\ AreaKey(kind, ex) \in DOMAIN session
        /\ txt # session[AreaKey(kind, ex)]
        /\ LET prev == GetOr(session, PrevKey(kind, ex), <<>>)
               delta == Abs(Len(txt) - Len(prev))
           IN  /\ GetOr(keystrokes_map, ex, 0) + delta <= MaxKeystrokes
               /\ keystrokes_map' = Put(keystrokes_map, ex, GetOr(keystrokes_map, ex, 0) + delta)
               /\ session' = Put(Put(session, AreaKey(kind, ex), txt), PrevKey(kind, ex), txt)
        /\ shown' = TokenSet(exercises[ex].source)
                     \cup TokenSet(exercises[ex].mt_output) \cup TokenSet(txt)
        /\ UNCHANGED <<call, libs, exercises, submissions, next_sub_id, start_time_map, now>>

(* Student: Start timer on the page of exercise ex *)
StartTimerFor(ex) ==
    \E kind \in Kinds :
        /\ session' = PreludeSession(kind, ex)
        /\ keystrokes_map' = PreludeKeystrokes(kind, ex)
        /\ start_time_map' = start_timer_for(ex, start_time_map)
        /\ shown' = StudentPage(kind, ex, {})
        /\ UNCHANGED <<call, libs, exercises, submissions, next_sub_id, now>>

StartTimer == \E ex \in 1..Len(exercises) : StartTimerFor(ex)

(* Student: Reset timer / keystrokes on the page of exercise ex *)
ResetTimerFor(ex) ==
    \E kind \in Kinds :
        /\ session' = PreludeSession(kind, ex)
        /\ keystrokes_map' = reset_timer_keystrokes(ex, PreludeKeystrokes(kind, ex))
        /\ start_time_map' = reset_timer_start(ex, start_time_map)
        /\ shown' = StudentPage(kind, ex, {})
        /\ UNCHANGED <<call, libs, exercises, submissions, next_sub_id, now>>

ResetTimer == \E ex \in 1..Len(exercises) : ResetTimerFor(ex)

(* Words of the feedback shown after a successful Submit *)
RECURSIVE TokensOfTexts(_)
TokensOfTexts(texts) ==
    IF texts = <<>> THEN {} ELSE TokenSet(Head(texts)) \cup TokensOfTexts(Tail(texts))

RECURSIVE TokensOfPairs(_)
TokensOfPairs(pairs) ==
    IF pairs = <<>> THEN {}
    ELSE TokenSet(Head(pairs)[1]) \cup TokenSet(Head(pairs)[2]) \cup TokensOfPairs(Tail(pairs))

FirstFive(seq) == SubSeq(seq, 1, Min(5, Len(seq)))

HighlightTokens(parts) ==
    UNION {TokenSet(parts[n].text) \cup TokenSet(parts[n].annot) : n \in 1..Len(parts)}

FeedbackTokens(examples, parts) ==
    TokensOfTexts(FirstFive(examples.insert))
    \cup TokensOfTexts(FirstFive(examples.delete))
    \cup TokensOfPairs(FirstFive(examples.replace))
    \cup HighlightTokens(parts)

SubmissionRow(id, ex, name, kind, student_text, keystrokes, time_spent, ops, scores, pts) ==
    [id |-> id, exercise_id |-> ex, student_name |-> name, submission_type |-> TypeLabel(kind),
     student_text |-> student_text, keystrokes |-> keystrokes, time_spent |-> time_spent,
     inserts |-> ops.inserts, deletes |-> ops.deletes, replaces |-> ops.replaces,
     edit_ops |-> ops.edit_ops,
     bleu |-> scores.BLEU, chrf |-> scores.chrF, ter |-> scores.TER,
     bert_f1 |-> scores.BERT_F1, similarity |-> scores.similarity, points |-> pts]

(* INSERT INTO submissions *)
InsertSubmission(table, row) == table \cup {row}

(* Student: Submit on the page of exercise ex, with the name typed and    *)
(* the outcome of each provider                                            *)
SubmitFor(ex, names, envs) ==
    \E kind \in Kinds :
        LET student_text == StudentText(kind, ex)
            keystrokes == KeystrokesShown(kind, ex)
            start_t == GetOr(start_time_map, ex, 0)
            time_spent == IF start_t = 0 THEN 0 ELSE now - start_t
            reference == exercises[ex].reference
            ops == token_opcodes(Some(reference), Some(student_text))
            parts == highlight_parts(Some(reference), Some(student_text))
        IN  \E name \in names, env \in envs :
                /\ next_sub_id <= MaxSubs
                /\ session' = PreludeSession(kind, ex)
                /\ IF BlankStr(name)
                   THEN /\ shown' = StudentPage(kind, ex, {})
                        /\ keystrokes_map' = PreludeKeystrokes(kind, ex)
                        /\ UNCHANGED <<submissions, next_sub_id, start_time_map>>
                   ELSE LET scores == compute_scores(Some(student_text), Some(reference),
                                                     libs, env)
                            pts == compute_points(scores, time_spent, ops.edit_ops)
                        IN  /\ submissions' = InsertSubmission(submissions,
                                   SubmissionRow(next_sub_id, ex, name, kind, student_text,
                                                 keystrokes, time_spent, ops, scores, pts))
                            /\ next_sub_id' = next_sub_id + 1
                            /\ start_time_map' = reset_timer_start(ex, start_time_map)
                            /\ keystrokes_map' =
                                   reset_timer_keystrokes(ex, PreludeKeystrokes(kind, ex))
                            /\ shown' = StudentPage(kind, ex,
                                                    FeedbackTokens(ops.examples, parts))
                /\ UNCHANGED <<call, libs, exercises, now>>

SubmitWith(names, envs) == \E ex \in 1..Len(exercises) : SubmitFor(ex, names, envs)

Submit == SubmitWith(Names, AppEnvs)

(* Instructor: View submissions with one submission selected *)
ViewSubmissions ==
    /\ submissions # {} => \E sel \in {r.id : r \in submissions} : TRUE
    /\ UNCHANGED vars

(* Variant: DELETE ... WHERE id <= ? *)
DeleteUpToId(table, id) == {r \in table : r.id > id}

(* DELETE FROM submissions WHERE id=? *)
DeleteById(table, id) == {r \in table : r.id # id}

(* Instructor: Delete this submission *)
DeleteSubmission ==
    \E sel \in {r.id : r \in submissions} :
        /\ submissions' = DeleteById(submissions, sel)
        /\ UNCHANGED <<call, libs, exercises, next_sub_id, session, keystrokes_map,
                       start_time_map, now, shown>>

(* SELECT student_name, SUM(points) AS total_points, COUNT of rows AS      *)
(* submissions FROM submissions GROUP BY student_name                      *)
RECURSIVE SumPoints(_)
SumPoints(rows) ==
    IF rows = {} THEN 0
    ELSE LET r == CHOOSE x \in rows : TRUE
         IN  r.points + SumPoints(rows \ {r})

GroupRowOf(name, rows) ==
    [student_name |-> name, total_points |-> SumPoints(rows), submissions |-> Cardinality(rows)]

GroupByStudent(table) ==
    {GroupRowOf(name, {r \in table : r.student_name = name}) :
        name \in {r.student_name : r \in table}}

(* Variant: ORDER BY total_points, without DESC *)
OrderedAscending(groups) ==
    {rows \in [1..Cardinality(groups) -> groups] :
        /\ \A g \in groups : \E n \in 1..Len(rows) : rows[n] = g
        /\ \A n \in 1..(Len(rows) - 1) : rows[n].total_points <= rows[n + 1].total_points}

(* ORDER BY total_points DESC: every order of the groups that the sort     *)
(* allows (the order of groups with equal totals is not specified)         *)
OrderedByTotalDesc(groups) ==
    {rows \in [1..Cardinality(groups) -> groups] :
        /\ \A g \in groups : \E n \in 1..Len(rows) : rows[n] = g
        /\ \A n \in 1..(Len(rows) - 1) : rows[n].total_points >= rows[n + 1].total_points}

LeaderboardRows(table) == OrderedByTotalDesc(GroupByStudent(table))

(* Instructor: Leaderboard (the rows are written to the instructor's page) *)
Leaderboard ==
    /\ \E rows \in LeaderboardRows(submissions) : rows = <<>> \/ Len(rows) >= 1
    /\ UNCHANGED vars

(* Instructor: Export CSV *)
ExportCSV ==
    /\ UNCHANGED vars

(* Time passes *)
Tick ==
    \E d \in TickSteps :
        /\ now + d <= ClockStart + MaxElapsed
        /\ now' = now + d
        /\ UNCHANGED <<call, libs, exercises, submissions, next_sub_id, session,
                       keystrokes_map, start_time_map, shown>>

Next ==
    \/ SaveExercise
    \/ ChooseExercise
    \/ EditText
    \/ StartTimer
    \/ ResetTimer
    \/ Submit
    \/ ViewSubmissions
    \/ DeleteSubmission
    \/ Leaderboard
    \/ ExportCSV
    \/ Tick

Spec == Init /\ [][Next]_vars

-----------------------------------------------------------------------------
(* Specification SpecBoard: the submissions table under submits of several *)
(* students, with providers that return or raise, and instructor deletes   *)

BoardNames == {<<>>, <<"n">>, <<"m">>, <<"n", " ">>}

BoardEnvs == {AllReturn, AllRaise}

SubmitByStudents == SubmitWith(BoardNames, BoardEnvs)

NextBoard ==
    \/ SaveExercise
    \/ ChooseExercise
    \/ EditText
    \/ SubmitByStudents
    \/ DeleteSubmission
    \/ Leaderboard

SpecBoard == Init /\ [][NextBoard]_vars

-----------------------------------------------------------------------------
(* Specification SpecTimer: one student session working on two exercises   *)
(* that the instructor has saved                                           *)

TimerExercises ==
    <<[source |-> <<"s">>, mt_output |-> <<"a">>, reference |-> <<"a", " ", "b", "c">>],
      [source |-> <<"t">>, mt_output |-> <<"b", "c">>, reference |-> <<"b", "c">>]>>

InitTimer ==
    /\ libs \in AppLibs
    /\ call = NoCall
    /\ exercises = TimerExercises
    /\ submissions = {}
    /\ next_sub_id = 1
    /\ session = EmptyDict
    /\ keystrokes_map = EmptyDict
    /\ start_time_map = EmptyDict
    /\ now = ClockStart
    /\ shown = NothingShown

NextTimer ==
    \/ ChooseExercise
    \/ EditText
    \/ StartTimer
    \/ ResetTimer
    \/ Submit
    \/ Tick

SpecTimer == InitTimer /\ [][NextTimer]_vars

-----------------------------------------------------------------------------
(* Claims about the application (checked under Spec)                       *)

SubmissionIds(table) == {r.id : r \in table}

(* Every row present before and after the step has all its columns unchanged *)
RowsKept ==
    \A r \in submissions : \A q \in submissions' : q.id = r.id => q = r

InsertedOne ==
    \E q \in submissions' :
        /\ q.id \notin SubmissionIds(submissions)
        /\ submissions' = submissions \cup {q}

DeletedOne ==
    \E r \in submissions :
        /\ submissions' = submissions \ {r}
        /\ \A q \in submissions : q.id = r.id => q = r

(* C8: a stored submission row keeps the values written at insert until    *)
(* it is deleted; the table changes only by the insert of a successful     *)
(* Submit (exactly one new row) and by the instructor's delete-by-id       *)
(* (exactly the selected row).                                             *)
C8_SubmissionsWriteOnce ==
    [][/\ RowsKept
       /\ submissions' = submissions \/ InsertedOne \/ DeletedOne
       /\ InsertedOne => Submit
       /\ (submissions' # submissions /\ ~InsertedOne) => DeleteSubmission]_vars

C8_Witness ==
    /\ next_sub_id = 3
    /\ Cardinality(submissions) = 1
    /\ \E r \in submissions : r.id = 1 /\ r.points > 0 /\ r.time_spent > 0

(* Words the student can see without the reference: the source and MT of   *)
(* the exercises and the texts of the student's own text areas             *)
StudentKnownTokens ==
    UNION {TokenSet(exercises[n].source) \cup TokenSet(exercises[n].mt_output) :
              n \in 1..Len(exercises)}
    \cup UNION {TokenSet(session[k]) : k \in DOMAIN session}

(* C9: nothing the student page displays contains a word of the reference  *)
(* that is not also in the source, the MT output or the student's text.    *)
C9_ReferenceHiddenFromStudent == shown \subseteq StudentKnownTokens

(* A text of no characters or of spaces only *)
OnlySpaces(s) == \A n \in 1..Len(s) : s[n] = " "

NamesOfSpaces == {n \in Names : OnlySpaces(n)}

(* A Submit on the page of exercise ex with a name of spaces or no name *)
SubmitWithoutName(ex) == SubmitFor(ex, NamesOfSpaces, AppEnvs)

PageDrawn(ex) == \E kind \in Kinds : AreaKey(kind, ex) \in DOMAIN session

NothingStored ==
    /\ submissions' = submissions
    /\ next_sub_id' = next_sub_id
    /\ exercises' = exercises

TimerAndCounterKept(ex) ==
    /\ start_time_map' = start_time_map
    /\ GetOr(keystrokes_map', ex, 0) = GetOr(keystrokes_map, ex, 0)
    /\ \A other \in (DOMAIN keystrokes_map) \ {ex} :
          other \in DOMAIN keystrokes_map' /\ keystrokes_map'[other] = keystrokes_map[other]

RejectedSubmitKeepsState ==
    \A ex \in 1..Len(exercises) :
        SubmitWithoutName(ex) =>
            /\ NothingStored
            /\ TimerAndCounterKept(ex)
            /\ PageDrawn(ex) => session' = session /\ keystrokes_map' = keystrokes_map

ExerciseSavedWithSource ==
    exercises' # exercises =>
        /\ Len(exercises') = Len(exercises) + 1
        /\ SubSeq(exercises', 1, Len(exercises)) = exercises
        /\ ~OnlySpaces(exercises'[Len(exercises')].source)

NoBlankRowStored ==
    /\ \A r \in submissions : ~OnlySpaces(r.student_name)
    /\ \A n \in 1..Len(exercises) : ~OnlySpaces(exercises[n].source)

(* C14: a Submit with an empty or whitespace-only student name stores no   *)
(* row and leaves the start times and the keystroke counters as they were  *)
(* (on a page already drawn it leaves the whole session as it was), so the *)
(* time a later Submit records still counts from the same Start timer; no  *)
(* stored submission has such a name; an exercise row is only ever added   *)
(* with a source text that is not empty or whitespace-only.                *)
C14_RejectedInputsChangeNothing ==
    /\ []NoBlankRowStored
    /\ [][RejectedSubmitKeepsState /\ ExerciseSavedWithSource]_vars

C14_Witness ==
    /\ Len(exercises) = 1
    /\ submissions = {}
    /\ next_sub_id = 1
    /\ PageDrawn(1)
    /\ start_time_map = Put(EmptyDict, 1, ClockStart)
    /\ now > ClockStart
    /\ GetOr(keystrokes_map, 1, 0) > 0
    /\ shown = StudentPage("edit", 1, {})

-----------------------------------------------------------------------------
(* Claims about the per-exercise timer (checked under SpecTimer)           *)

StartTimeOf(stm, ex) == IF ex \in DOMAIN stm THEN Some(stm[ex]) ELSE None

KeystrokesOf(km, ex) == IF ex \in DOMAIN km THEN Some(km[ex]) ELSE None

(* A Submit on the page of exercise ex that stored a row *)
SubmitStored(ex) == next_sub_id' = next_sub_id + 1 /\ SubmitFor(ex, Names, AppEnvs)

ElapsedSinceStart(ex) ==
    IF StartTimeOf(start_time_map, ex) = None THEN 0 ELSE now - start_time_map[ex]

StartTimeKept(ex) == StartTimeOf(start_time_map', ex) = StartTimeOf(start_time_map, ex)

KeystrokesKept(ex) == KeystrokesOf(keystrokes_map', ex) = KeystrokesOf(keystrokes_map, ex)

OthersKept(ex) ==
    \A other \in (1..Len(exercises)) \ {ex} : StartTimeKept(other) /\ KeystrokesKept(other)

TimerCleared(ex) ==
    /\ StartTimeOf(start_time_map', ex) = None
    /\ KeystrokesOf(keystrokes_map', ex) = Some(0)

RecordedTime(ex) ==
    /\ submissions' # submissions
    /\ \A q \in submissions' \ submissions :
          /\ q.exercise_id = ex
          /\ q.time_spent = ElapsedSinceStart(ex)
          /\ q.time_spent = 0 <=>
                 \/ StartTimeOf(start_time_map, ex) = None
                 \/ StartTimeOf(start_time_map, ex) = Some(now)

(* What a step does to the timers, by the timer action on ex that it is *)
TimerProtocol(ex) ==
    IF SubmitStored(ex) THEN RecordedTime(ex) /\ TimerCleared(ex) /\ OthersKept(ex)
    ELSE IF StartTimerFor(ex)
         THEN StartTimeOf(start_time_map', ex) = Some(now) /\ OthersKept(ex)
    ELSE IF ResetTimerFor(ex) THEN TimerCleared(ex) /\ OthersKept(ex)
    ELSE StartTimeKept(ex)

-----------------------------------------------------------------------------
(* Claims about the leaderboard (checked under SpecBoard)                  *)

StoredNames(table) == {r.student_name : r \in table}

(* The points of the stored submissions of one student, by submission id *)
RECURSIVE PointsUpTo(_, _, _)
PointsUpTo(table, name, top) ==
    IF top = 0 THEN 0
    ELSE (IF \E r \in table : r.id = top /\ r.student_name = name
          THEN (CHOOSE r \in table : r.id = top /\ r.student_name = name).points
          ELSE 0)
         + PointsUpTo(table, name, top - 1)

BoardListsStudents(rows, table, top) ==
    /\ {rows[n].student_name : n \in 1..Len(rows)} = StoredNames(table)
    /\ \A i, j \in 1..Len(rows) : rows[i].student_name = rows[j].student_name => i = j
    /\ \A n \in 1..Len(rows) :
          /\ rows[n].total_points = PointsUpTo(table, rows[n].student_name, top)
          /\ rows[n].submissions =
                 Cardinality({r \in table : r.student_name = rows[n].student_name})
          /\ rows[n].submissions >= 1
    /\ \A n \in 1..(Len(rows) - 1) : rows[n].total_points >= rows[n + 1].total_points

BoardCorrect ==
    /\ LeaderboardRows(submissions) # {}
    /\ \A rows \in LeaderboardRows(submissions) :
          BoardListsStudents(rows, submissions, next_sub_id - 1)

EntryOf(rows, name) == {rows[n] : n \in {k \in 1..Len(rows) : rows[k].student_name = name}}

(* The leaderboard after row r was deleted, against the one before *)
BoardAfterDelete(before, after, r) ==
    /\ \A e \in EntryOf(before, r.student_name) :
          IF e.submissions = 1
          THEN EntryOf(after, r.student_name) = {}
          ELSE EntryOf(after, r.student_name) =
                   {[student_name |-> r.student_name,
                     total_points |-> e.total_points - r.points,
                     submissions |-> e.submissions - 1]}
    /\ \A name \in StoredNames(submissions) \ {r.student_name} :
          EntryOf(after, name) = EntryOf(before, name)

DeleteLowersTotal ==
    \A r \in submissions :
        (submissions' = submissions \ {r}) =>
            \A before \in LeaderboardRows(submissions), after \in LeaderboardRows(submissions') :
                BoardAfterDelete(before, after, r)

(* C12: after any submits and deletes the leaderboard lists exactly the    *)
(* students with a stored submission, each once, with the sum of the       *)
(* points and the number of that student's stored submissions, totals      *)
(* non-increasing; a delete lowers its student's total by the points of    *)
(* the deleted row and removes the student when no row remains.            *)
C12_LeaderboardTotals == []BoardCorrect /\ [][DeleteLowersTotal]_vars

C12_Witness ==
    \E rows \in LeaderboardRows(submissions) :
        /\ Len(rows) = 2
        /\ rows[1].total_points > rows[2].total_points
        /\ rows[2].total_points > 0

-----------------------------------------------------------------------------
(* Specification SpecCsv: the FastAPI service main.py.  POST /submit/ runs *)
(* submit_translation and GET /submissions/ runs get_submissions; both are *)
(* plain def handlers, which FastAPI runs on worker threads, so requests   *)
(* interleave between their statements and file operations.                *)

MaxRequests == 3

(* The names bound in the module namespace of main.py *)
MainGlobals ==
    {"FastAPI", "BaseModel", "pd", "os", "calculate_metrics", "highlight_differences",
     "classify_errors", "generate_exercises", "generate_collocations", "generate_idioms",
     "fun_activity", "app", "TranslationSubmission", "submit_translation", "get_submissions"}

(* Valid request bodies of POST /submit/ *)
Bodies ==
    {[student_name |-> <<"n">>, reference |-> <<"a", " ", "b", "c">>,
      mt_output |-> <<"a">>, student_translation |-> <<"a">>],
     [student_name |-> <<"m">>, reference |-> <<"a", " ", "b", "c">>,
      mt_output |-> <<"a">>, student_translation |-> <<"b", "c">>]}

NoBody == [student_name |-> <<>>, reference |-> <<>>, mt_output |-> <<>>,
           student_translation |-> <<>>]

(* Levenshtein.distance over the characters of two texts *)
RECURSIVE LevenshteinDistance(_, _)
LevenshteinDistance(a, b) ==
    IF a = <<>> THEN Len(b)
    ELSE IF b = <<>> THEN Len(a)
    ELSE Min(Min(1 + LevenshteinDistance(Tail(a), b), 1 + LevenshteinDistance(a, Tail(b))),
             (IF Head(a) = Head(b) THEN 0 ELSE 1) + LevenshteinDistance(Tail(a), Tail(b)))

(* utils.py classify_errors: the word pairs that differ position by position *)
classify_errors(hypothesis, reference) ==
    LET hyp_words == Split(hypothesis)
        ref_words == Split(reference)
        mismatch == {i \in 1..Min(Len(hyp_words), Len(ref_words)) : hyp_words[i] # ref_words[i]}
    IN  [n \in 1..Cardinality(mismatch) |->
            LET i == CHOOSE x \in mismatch : Cardinality({y \in mismatch : y < x}) = n - 1
            IN  <<hyp_words[i], ref_words[i]>>]

(* new_data, the row of one submission *)
NewData(body, bleu, edit_distance) ==
    [Student |-> body.student_name, Reference |-> body.reference,
     MT_Output |-> body.mt_output, Translation |-> body.student_translation,
     BLEU |-> bleu, Edit_Distance |-> edit_distance,
     Errors |-> classify_errors(body.student_translation, body.reference)]

(* submissions.csv: absent, opened for writing and still empty, or a table *)
AbsentFile == [state |-> "absent", rows |-> <<>>]

EmptyFile == [state |-> "empty", rows |-> <<>>]

TableFile(rows) == [state |-> "table", rows |-> rows]

PriorFiles ==
    {AbsentFile, TableFile(<<NewData([student_name |-> <<"p">>, reference |-> <<"a">>,
                                       mt_output |-> <<"a">>, student_translation |-> <<"a">>],
                                      None, 0)>>)}

IdleHandler == [pc |-> "idle", body |-> NoBody, bleu |-> None, edit_distance |-> 0, df |-> <<>>]

NotAsked == [status |-> 0, rows |-> <<>>]

Requests == 1..MaxRequests

InitCsv ==
    /\ AppStart
    /\ libs \in LibChoices
    /\ \E file \in PriorFiles :
          call = [fn |-> "csv", done |-> FALSE, prior |-> file, file |-> file,
                  handlers |-> [r \in Requests |-> IdleHandler], got |-> NotAsked]

Handler(r, h) == [call EXCEPT !.handlers[r] = h]

(* POST /submit/ with a valid body arrives: a handler starts *)
PostSubmit ==
    \E r \in Requests, body \in Bodies :
        /\ call.handlers[r].pc = "idle"
        /\ \A q \in 1..(r - 1) : call.handlers[q].pc # "idle"
        /\ call' = Handler(r, [call.handlers[r] EXCEPT !.pc = "line17", !.body = body])
        /\ UNCHANGED <<libs, appVars>>

(* metrics = calculate_metrics(...) *)
CalculateMetrics ==
    \E r \in Requests, env \in AppEnvs :
        /\ call.handlers[r].pc = "line17"
        /\ LET h == call.handlers[r]
               m == utils_calculate_metrics(Some(h.body.student_translation),
                                            Some(h.body.reference), libs, env)
           IN  call' = IF m.raised
                       THEN Handler(r, [h EXCEPT !.pc = "failed"])
                       ELSE Handler(r, [h EXCEPT !.pc = "line18", !.bleu = m.out["BLEU"]])
        /\ UNCHANGED <<libs, appVars>>

(* The statements of submit_translation from line 18 on, one at a time:    *)
(* the edit distance (a NameError when the name Levenshtein is not bound), *)
(* then the save block: os.path.exists, pd.read_csv and pd.concat,         *)
(* df.to_csv opening the file for writing, df.to_csv writing the rows      *)
HandlerStepIn(globals, r) ==
    LET h == call.handlers[r]
        new_data == NewData(h.body, h.bleu, h.edit_distance)
    IN  /\ h.pc \in {"line18", "line47", "line48", "line52", "line52w"}
        /\ call' =
             IF h.pc = "line18"
             THEN IF "Levenshtein" \in globals
                  THEN Handler(r, [h EXCEPT !.pc = "line47",
                                            !.edit_distance =
                                                LevenshteinDistance(h.body.student_translation,
                                                                    h.body.reference)])
                  ELSE Handler(r, [h EXCEPT !.pc = "failed"])
             ELSE IF h.pc = "line47"
             THEN IF call.file.state # "absent"
                  THEN Handler(r, [h EXCEPT !.pc = "line48"])
                  ELSE Handler(r, [h EXCEPT !.pc = "line52", !.df = <<new_data>>])
             ELSE IF h.pc = "line48"
             THEN IF call.file.state = "table"
                  THEN Handler(r, [h EXCEPT !.pc = "line52",
                                            !.df = Append(call.file.rows, new_data)])
                  ELSE Handler(r, [h EXCEPT !.pc = "failed"])
             ELSE IF h.pc = "line52"
             THEN [Handler(r, [h EXCEPT !.pc = "line52w"]) EXCEPT !.file = EmptyFile]
             ELSE [Handler(r, [h EXCEPT !.pc = "returned"]) EXCEPT !.file = TableFile(h.df)]
        /\ UNCHANGED <<libs, appVars>>

HandlerStep == \E r \in Requests : HandlerStepIn(MainGlobals, r)

(* What get_submissions returns for a state of the file *)
get_submissions(file) ==
    IF file.state = "absent" THEN [status |-> 200, rows |-> <<>>]
    ELSE IF file.state = "table" THEN [status |-> 200, rows |-> file.rows]
    ELSE [status |-> 500, rows |-> <<>>]

(* GET /submissions/ *)
GetSubmissions ==
    /\ call.fn = "csv"
    /\ call' = [call EXCEPT !.got = get_submissions(call.file)]
    /\ UNCHANGED <<libs, appVars>>

NextCsv ==
    \/ PostSubmit
    \/ CalculateMetrics
    \/ HandlerStep
    \/ GetSubmissions

SpecCsv == InitCsv /\ [][NextCsv]_vars

(* Variant: main.py with the name Levenshtein bound, as if imported *)
HandlerStepImported == \E r \in Requests : HandlerStepIn(MainGlobals \cup {"Levenshtein"}, r)

NextCsvImported ==
    \/ PostSubmit
    \/ CalculateMetrics
    \/ HandlerStepImported
    \/ GetSubmissions

SpecCsvImported == InitCsv /\ [][NextCsvImported]_vars

-----------------------------------------------------------------------------
(* Claims about the CSV store of main.py (checked under SpecCsv)           *)

Posted == {r \in Requests : call.handlers[r].pc # "idle"}

AllFinished == \A r \in Posted : call.handlers[r].pc \in {"returned", "failed"}

(* The submission a row was written for *)
SubmissionOf(row) ==
    [student_name |-> row.Student, reference |-> row.Reference,
     mt_output |-> row.MT_Output, student_translation |-> row.Translation]

(* How many rows of a table were written for a submission *)
RowsFor(rows, body) == Cardinality({n \in 1..Len(rows) : SubmissionOf(rows[n]) = body})

RequestsFor(body) == Cardinality({r \in Posted : call.handlers[r].body = body})

NoRequestFailed == \A r \in Requests : call.handlers[r].pc # "failed"

EveryRowKept ==
    AllFinished =>
        LET got == get_submissions(call.file)
        IN  /\ got.status = 200
            /\ Len(got.rows) = Len(call.prior.rows) + Cardinality(Posted)
            /\ SubSeq(got.rows, 1, Len(call.prior.rows)) = call.prior.rows
            /\ \A body \in Bodies :
                  RowsFor(got.rows, body) = RowsFor(call.prior.rows, body) + RequestsFor(body)

(* C15: no POST /submit/ request fails before its row is written, and once *)
(* all k handlers have finished GET /submissions/ returns every row stored *)
(* before plus exactly k new rows, one per request.                        *)
C15_OneRecordPerSubmission == NoRequestFailed /\ EveryRowKept

====
